---- MODULE Spec2Model ----
(***************************************************************************)
(* Model of the Comic-Scans python barcode service:                        *)
(*   scanner.py        scan_barcode and its helpers (the tiered scan)      *)
(*   preprocessing.py  preprocess_image (the image normalizer)             *)
(*   main.py           scan_upc (the POST /scan handler)                   *)
(* The external collaborators (pyzbar's decode, cv2's image codec, barcode *)
(* detector and pixel statistics) are inputs drawn from small sets.        *)
(***************************************************************************)
EXTENDS Integers, Sequences, FiniteSets, TLC

(***************************************************************************)
(* Bounds of the model.                                                    *)
(***************************************************************************)
\* longest list of symbols one call of pyzbar's decode returns
MaxSymbols == 2

(***************************************************************************)
(* Values.                                                                 *)
(***************************************************************************)
\* Python's None, as a value of a result field
None == "None"

\* payloads of decoded symbols (barcode.data.decode('utf-8')): digit strings,
\* never empty for the EAN/UPC family
Payloads == {"d1", "d2"}

\* barcode.type as pyzbar reports it; CODE128 stands for any type the
\* classification does not name
SymbolTypes == {"UPCA", "UPCE", "EAN13", "EAN5", "CODE128"}

Symbols == [type : SymbolTypes, data : Payloads]

\* the symbols the images of a scan show: one type of each class (a main
\* symbol, an extension, a type the classification leaves out)
ScannedSymbols == [type : {"UPCA", "EAN5", "CODE128"}, data : Payloads]

\* what one call of the external decoder can return during a scan
DecoderOutputs == UNION {[1..n -> ScannedSymbols] : n \in 0..MaxSymbols}

\* values a result field can hold, the empty string included
FieldValues == {None, ""} \cup Payloads

ScanResults == [main : FieldValues, extension : FieldValues]

\* truth value of a Python object in a condition (None and '' are false)
Truthy(v) == v # None /\ v # ""

\* Python's `a or b`: a when a is true, else b
PyOr(a, b) == IF Truthy(a) THEN a ELSE b

EmptyResult == [main |-> None, extension |-> None]

(***************************************************************************)
(* scanner.py: pure helpers.                                               *)
(***************************************************************************)
merge_results_overwrite(existing, new) ==
    [main      |-> PyOr(new.main, existing.main),
     extension |-> PyOr(new.extension, existing.extension)]

merge_results(existing, new) ==
    [main      |-> PyOr(existing.main, new.main),
     extension |-> PyOr(existing.extension, new.extension)]

MainTypes == {"UPCA", "UPCE", "EAN13"}

\* the loop of try_decode over barcodes[i..], starting from result
RECURSIVE try_decode_loop(_, _, _)
try_decode_loop(barcodes, i, result) ==
    IF i > Len(barcodes) THEN result
    ELSE LET barcode == barcodes[i]
             data == barcode.data
         IN try_decode_loop(barcodes, i + 1,
                IF barcode.type \in MainTypes
                    THEN [result EXCEPT !.main = data]
                ELSE IF barcode.type = "EAN5"
                    THEN [result EXCEPT !.extension = data]
                ELSE result)

\* try_decode(image), given what decode(image, symbols=BARCODE_TYPES) returned
try_decode(barcodes) == try_decode_loop(barcodes, 1, EmptyResult)

\* check_image_quality: the three statistics are inputs; edge_density is in
\* units of 1/10000
LaplacianMin == 50
ContrastMin == 20
EdgeDensityMin == 100

is_scannable(m) ==
    m.laplacian_var > LaplacianMin /\ m.contrast > ContrastMin
        /\ m.edge_density > EdgeDensityMin

check_image_quality(m) ==
    [scannable |-> is_scannable(m), blur_score |-> m.laplacian_var,
     contrast |-> m.contrast, edge_density |-> m.edge_density]

\* pixel statistics of the images scanned: a uniform gray image, a sharp
\* image, and one that is sharp but for an edge density exactly at its
\* threshold
UniformGray == [laplacian_var |-> 0, contrast |-> 0, edge_density |-> 0]

SharpImage ==
    [laplacian_var |-> LaplacianMin + 1, contrast |-> ContrastMin + 1,
     edge_density |-> EdgeDensityMin + 1]

ImageMetrics ==
    {UniformGray, SharpImage, [SharpImage EXCEPT !.edge_density = EdgeDensityMin]}

(***************************************************************************)
(* scanner.py: scan_barcode as a state machine, one step per decode        *)
(* attempt. A scan is a record; the variables below hold its fields.       *)
(***************************************************************************)
ROTATIONS_swapped == <<0, 180, 90, 270>>

\* for angle in [0, 90, 180, 270]
ROTATIONS == <<0, 90, 180, 270>>

\* for thresh_val in [140, 160, 180]
TIER3_THRESHOLDS == <<140, 160, 180>>

SMALL_ANGLES_five == <<-5, -3, 0, 3, 5>>

\* for small_angle in [-5, -3, 3, 5]
SMALL_ANGLES == <<-5, -3, 3, 5>>

\* for angle in [0, 90]
DEEP_ANGLES == <<0, 90>>

\* upscale_and_clean: for thresh_val in [140, 160, 180, 120]
CASCADE_THRESHOLDS == <<140, 160, 180, 120>>

\* positions of the later attempts of upscale_and_clean in its cascade
OtsuStep == Len(CASCADE_THRESHOLDS) + 1
InvertedStep == OtsuStep + 1
HBlurStep == InvertedStep + 1

\* what deskew_and_decode's skew estimation can find
SkewEstimates == {"no_lines", "no_angles", "minimal", "skewed"}

Label(tier, img, param, angle) ==
    [tier |-> tier, img |-> img, param |-> param, angle |-> angle]

GateLabel == Label(0, "gate", 0, 0)

complete_never(best) == FALSE

\* if best_result['main'] and best_result['extension']
complete(best) == Truthy(best.main) /\ Truthy(best.extension)

gate_stops_never(scannable, best) == FALSE

gate_stops_always(scannable, best) == ~scannable

\* if not quality['scannable'] and not best_result['main']
gate_stops(scannable, best) == ~scannable /\ ~Truthy(best.main)

\* scan_barcode up to its first loop: the quality check, the empty accumulator
scan_begin(cropped_present, metrics) ==
    [pc |-> "tier1", angle_i |-> 1, thresh_i |-> 1, step_i |-> 1,
     has_crop |-> cropped_present,
     quality |-> check_image_quality(metrics),
     best_result |-> EmptyResult, result |-> EmptyResult,
     calls |-> 0, trace |-> <<>>, exit |-> "none",
     seen_main |-> FALSE, seen_extension |-> FALSE,
     deskew_estimate |-> FALSE]

\* result = try_decode(img): one call of the decode adapter, logged
decoded(s, barcodes, label) ==
    LET r == try_decode(barcodes)
    IN [s EXCEPT !.result = r,
                 !.calls = @ + 1,
                 !.trace = Append(@, label),
                 !.seen_main = @ \/ Truthy(r.main),
                 !.seen_extension = @ \/ Truthy(r.extension)]

\* best_result = merge_results(best_result, result)
merged(s) == [s EXCEPT !.best_result = merge_results(s.best_result, s.result)]

returned(s, where) == [s EXCEPT !.pc = "done", !.exit = where]

\* one pass of a loop body `result = try_decode(img); best_result = merge...;
\* if both: return`, then the loop's advance: `next` is the state when the
\* loop goes on
attempt(s, barcodes, label, where, next) ==
    LET d == merged(decoded(s, barcodes, label))
    IN IF complete(d.best_result) THEN returned(d, where)
       ELSE [d EXCEPT !.pc = next.pc, !.angle_i = next.angle_i,
                      !.thresh_i = next.thresh_i, !.step_i = next.step_i]

\* the position after the body of `for angle in ROTATIONS` at s, the loop
\* being followed by position `after`
next_rotation(s, after) ==
    IF s.angle_i < Len(ROTATIONS)
        THEN [s EXCEPT !.angle_i = @ + 1]
        ELSE [s EXCEPT !.pc = after, !.angle_i = 1]

tier1_step(s, barcodes) ==
    attempt(s, barcodes, Label(1, "original", 0, ROTATIONS[s.angle_i]),
            "tier1", next_rotation(s, "tier2"))

tier2_step(s, barcodes) ==
    attempt(s, barcodes, Label(2, "enhanced", 0, ROTATIONS[s.angle_i]),
            "tier2", next_rotation(s, "tier3"))

\* the tier that follows tier 3: `if cropped is not None`
after_tier3(s) == IF s.has_crop THEN "tier4_crop" ELSE "gate"

tier3_step(s, barcodes) ==
    attempt(s, barcodes,
            Label(3, "thresh", TIER3_THRESHOLDS[s.thresh_i], ROTATIONS[s.angle_i]),
            "tier3",
            IF s.angle_i < Len(ROTATIONS)
                THEN [s EXCEPT !.angle_i = @ + 1]
            ELSE IF s.thresh_i < Len(TIER3_THRESHOLDS)
                THEN [s EXCEPT !.thresh_i = @ + 1, !.angle_i = 1]
            ELSE [s EXCEPT !.pc = after_tier3(s), !.thresh_i = 1, !.angle_i = 1])

tier4_crop_step(s, barcodes) ==
    attempt(s, barcodes, Label(4, "crop", 0, ROTATIONS[s.angle_i]),
            "tier4", next_rotation(s, "tier4_enhanced"))

tier4_enhanced_step(s, barcodes) ==
    attempt(s, barcodes, Label(4, "crop_enhanced", 0, ROTATIONS[s.angle_i]),
            "tier4", next_rotation(s, "gate"))

\* the early exit between tier 4 and tier 5
gate_step(s) ==
    LET g == [s EXCEPT !.trace = Append(@, GateLabel)]
    IN IF gate_stops(s.quality.scannable, s.best_result)
           THEN returned(g, "gate")
           ELSE [g EXCEPT !.pc = "tier5", !.angle_i = 1]

tier5_step(s, barcodes) ==
    attempt(s, barcodes, Label(5, "small_angle", 0, SMALL_ANGLES[s.angle_i]),
            "tier5",
            IF s.angle_i < Len(SMALL_ANGLES)
                THEN [s EXCEPT !.angle_i = @ + 1]
                ELSE [s EXCEPT !.pc = "tier6_upscale", !.angle_i = 1, !.step_i = 1])

\* the image upscale_and_clean decodes at step i of its cascade
cascade_label(s) ==
    LET i == s.step_i
        angle == DEEP_ANGLES[s.angle_i]
    IN IF i <= Len(CASCADE_THRESHOLDS)
           THEN Label(6, "deep_thresh", CASCADE_THRESHOLDS[i], angle)
       ELSE IF i = OtsuStep THEN Label(6, "deep_otsu", 0, angle)
       ELSE IF i = InvertedStep THEN Label(6, "deep_otsu_inverted", 0, angle)
       ELSE Label(6, "deep_h_blur", 0, angle)

cascade_returns_last(i, r) == i = HBlurStep

\* whether upscale_and_clean returns the result of step i of its cascade:
\* a fixed threshold returns on a main; Otsu and its inversion go on to the
\* next attempt when they gave no main; the horizontal blur is the last
cascade_returns(i, r) ==
    IF i <= Len(CASCADE_THRESHOLDS)
        THEN Truthy(r.main)
    ELSE IF i < HBlurStep THEN Truthy(r.main)
    ELSE TRUE

\* one decode attempt of upscale_and_clean; when it returns, scan_barcode
\* merges what it returned and goes on to the deskew
tier6_upscale_step(s, barcodes) ==
    LET d == decoded(s, barcodes, cascade_label(s))
    IN IF cascade_returns(s.step_i, d.result)
           THEN LET m == merged(d)
                IN IF complete(m.best_result) THEN returned(m, "tier6")
                   ELSE [m EXCEPT !.pc = "tier6_deskew", !.step_i = 1]
           ELSE [d EXCEPT !.step_i = @ + 1]

\* deskew_and_decode: decodes only when the skew estimate is not negligible
tier6_deskew_step(s, skew, barcodes) ==
    LET e == [s EXCEPT !.deskew_estimate = (skew \in {"minimal", "skewed"})]
        d == IF skew = "skewed"
                 THEN decoded(e, barcodes,
                              Label(6, "deep_deskew", 0, DEEP_ANGLES[s.angle_i]))
                 ELSE [e EXCEPT !.result = EmptyResult]
        m == merged(d)
    IN IF complete(m.best_result) THEN returned(m, "tier6")
       ELSE IF s.angle_i < Len(DEEP_ANGLES)
           THEN [m EXCEPT !.pc = "tier6_upscale", !.angle_i = @ + 1, !.step_i = 1]
       ELSE returned(m, "end")

\* a step of scan_barcode from position s.pc (a decoding position), given
\* what the decoder and the skew estimation answer there
scan_step(s, skew, barcodes) ==
    CASE s.pc = "tier1" -> tier1_step(s, barcodes)
      [] s.pc = "tier2" -> tier2_step(s, barcodes)
      [] s.pc = "tier3" -> tier3_step(s, barcodes)
      [] s.pc = "tier4_crop" -> tier4_crop_step(s, barcodes)
      [] s.pc = "tier4_enhanced" -> tier4_enhanced_step(s, barcodes)
      [] s.pc = "gate" -> gate_step(s)
      [] s.pc = "tier5" -> tier5_step(s, barcodes)
      [] s.pc = "tier6_upscale" -> tier6_upscale_step(s, barcodes)
      [] s.pc = "tier6_deskew" -> tier6_deskew_step(s, skew, barcodes)

\* the answers of the decoder and of the skew estimation over one scan: call
\* number `at` of try_decode is answered `barcodes`, every other call finds
\* no symbol
OracleAnswer(oracle, call) ==
    IF call = oracle.at THEN oracle.barcodes ELSE <<>>

\* scan_barcode run from state s to its return, under an oracle
RECURSIVE run_scan(_, _)
run_scan(s, oracle) ==
    IF s.pc = "done" THEN s
    ELSE run_scan(scan_step(s, oracle.skew, OracleAnswer(oracle, s.calls + 1)),
                  oracle)

\* scan_barcode(original, enhanced, cropped): what it returns
scan_barcode(cropped_present, metrics, oracle) ==
    run_scan(scan_begin(cropped_present, metrics), oracle).best_result

(***************************************************************************)
(* preprocessing.py. An image is the region of the photograph it shows and *)
(* the processing it went through.                                         *)
(***************************************************************************)
\* padding = 20
padding == 20

Max(a, b) == IF a >= b THEN a ELSE b
Min(a, b) == IF a <= b THEN a ELSE b

\* cv2.imdecode of valid bytes: the whole photograph, in colour
FullImage(contents) ==
    [x |-> 0, y |-> 0, w |-> contents.w, h |-> contents.h, kind |-> "bgr"]

Raised(exc, message) ==
    [raised |-> TRUE, exc |-> exc, message |-> message, value |-> <<>>]

Returned(value) ==
    [raised |-> FALSE, exc |-> "", message |-> "", value |-> value]

\* None, where an image is expected
NoImage == [x |-> 0, y |-> 0, w |-> 0, h |-> 0, kind |-> "None"]

\* detect_barcode_region(img): the padded bounding box of the first detection
\* as a crop of img, or None when the detector finds nothing or raises
detect_barcode_region(img, detection) ==
    IF detection.outcome = "found"
        THEN LET x == Max(0, detection.x - padding)
                 y == Max(0, detection.y - padding)
                 w == Min(img.w - x, detection.w + padding * 2)
                 h == Min(img.h - y, detection.h + padding * 2)
             IN [x |-> x, y |-> y, w |-> w, h |-> h, kind |-> "bgr"]
        ELSE NoImage

\* enhance_image(img): grayscale, then CLAHE
enhance_image(img) == [img EXCEPT !.kind = "enhanced"]

preprocess_image_propagating(contents, detection) ==
    IF ~contents.valid
        THEN Raised("ValueError", "Could not decode image")
    ELSE IF detection.outcome = "raises"
        THEN Raised("cv2.error", "Built-in detector failed")
    ELSE LET img == FullImage(contents)
             region == detect_barcode_region(img, detection)
             cropped == IF region = NoImage THEN img ELSE region
         IN Returned(<<cropped, enhance_image(cropped)>>)

\* preprocess_image(image_bytes): raises ValueError when the bytes are no
\* image, else returns the pair (cropped, enhanced), cropped being the whole
\* image when no region was detected
preprocess_image(contents, detection) ==
    IF ~contents.valid
        THEN Raised("ValueError", "Could not decode image")
        ELSE LET img == FullImage(contents)
                 region == detect_barcode_region(img, detection)
                 cropped == IF region = NoImage THEN img ELSE region
                 enhanced == enhance_image(cropped)
             IN Returned(<<cropped, enhanced>>)

(***************************************************************************)
(* main.py: the POST /scan handler.                                        *)
(***************************************************************************)
HttpError(status, detail, scans) ==
    [status |-> status, detail |-> detail, upc |-> None, extension |-> None,
     scans |-> scans]

HttpOk(result, scans) ==
    [status |-> 200, detail |-> "", upc |-> result.main,
     extension |-> result.extension, scans |-> scans]

\* `original, enhanced, cropped = ...`: the targets of the unpacking
UnpackTargets == 3

\* scan_upc(image): the response to a request; scans counts the calls of
\* scan_barcode made for it
scan_upc(request) ==
    LET pre == preprocess_image(request.contents, request.detection)
    IN IF pre.raised
           \* except Exception as e
           THEN HttpError(500, pre.message, 0)
       ELSE IF Len(pre.value) # UnpackTargets
           \* the unpacking raises ValueError: except Exception as e
           THEN HttpError(500, "not enough values to unpack", 0)
       ELSE LET original == pre.value[1]
                enhanced == pre.value[2]
                cropped == pre.value[3]
                result == scan_barcode(cropped # NoImage, request.metrics,
                                       request.oracle)
            IN IF ~Truthy(result.main)
                   THEN HttpError(400, "No barcode found", 1)
                   ELSE HttpOk(result, 1)

(***************************************************************************)
(* State.                                                                  *)
(***************************************************************************)
VARIABLES
    scan,       \* the running call of scan_barcode: its position and locals
    adapter,    \* a call of try_decode: the decoder's answer, the result
    http,       \* a POST /scan request and its response
    normalizer, \* a call of preprocess_image: its arguments, its outcome
    harness     \* calls of scan_barcode on images that decode alike

vars == <<scan, adapter, http, normalizer, harness>>

\* no call of scan_barcode is running
IdleScan ==
    [pc |-> "idle", angle_i |-> 1, thresh_i |-> 1, step_i |-> 1,
     has_crop |-> FALSE, quality |-> check_image_quality(UniformGray),
     best_result |-> EmptyResult, result |-> EmptyResult,
     calls |-> 0, trace |-> <<>>, exit |-> "none",
     seen_main |-> FALSE, seen_extension |-> FALSE,
     deskew_estimate |-> FALSE]

IdleAdapter == [pc |-> "idle", barcodes |-> <<>>, result |-> EmptyResult]

NoRequest ==
    [contents |-> [valid |-> FALSE, w |-> 0, h |-> 0],
     detection |-> [outcome |-> "none", x |-> 0, y |-> 0, w |-> 0, h |-> 0],
     metrics |-> UniformGray,
     oracle |-> [at |-> 1, barcodes |-> <<>>, skew |-> "no_lines"]]

IdleHttp ==
    [pc |-> "idle", request |-> NoRequest, response |-> HttpError(0, "", 0)]

IdleNormalizer ==
    [pc |-> "idle", contents |-> NoRequest.contents,
     detection |-> NoRequest.detection, outcome |-> Returned(<<>>)]

IdleHarness ==
    [cropped_present |-> FALSE, oracle |-> NoRequest.oracle,
     runs |-> [m \in ImageMetrics |-> IdleScan]]

(***************************************************************************)
(* The tiered scan: one call of scan_barcode(original, enhanced, cropped). *)
(***************************************************************************)
Init ==
    /\ scan = IdleScan
    /\ adapter = IdleAdapter
    /\ http = IdleHttp
    /\ normalizer = IdleNormalizer
    /\ harness = IdleHarness

StartScan ==
    /\ scan.pc = "idle"
    /\ \E cropped_present \in BOOLEAN, metrics \in ImageMetrics :
           scan' = scan_begin(cropped_present, metrics)
    /\ UNCHANGED <<adapter, http, normalizer, harness>>

Tier1 ==
    /\ scan.pc = "tier1"
    /\ \E barcodes \in DecoderOutputs : scan' = tier1_step(scan, barcodes)
    /\ UNCHANGED <<adapter, http, normalizer, harness>>

Tier2 ==
    /\ scan.pc = "tier2"
    /\ \E barcodes \in DecoderOutputs : scan' = tier2_step(scan, barcodes)
    /\ UNCHANGED <<adapter, http, normalizer, harness>>

Tier3 ==
    /\ scan.pc = "tier3"
    /\ \E barcodes \in DecoderOutputs : scan' = tier3_step(scan, barcodes)
    /\ UNCHANGED <<adapter, http, normalizer, harness>>

Tier4Crop ==
    /\ scan.pc = "tier4_crop"
    /\ \E barcodes \in DecoderOutputs : scan' = tier4_crop_step(scan, barcodes)
    /\ UNCHANGED <<adapter, http, normalizer, harness>>

Tier4Enhanced ==
    /\ scan.pc = "tier4_enhanced"
    /\ \E barcodes \in DecoderOutputs : scan' = tier4_enhanced_step(scan, barcodes)
    /\ UNCHANGED <<adapter, http, normalizer, harness>>

Gate ==
    /\ scan.pc = "gate"
    /\ scan' = gate_step(scan)
    /\ UNCHANGED <<adapter, http, normalizer, harness>>

Tier5 ==
    /\ scan.pc = "tier5"
    /\ \E barcodes \in DecoderOutputs : scan' = tier5_step(scan, barcodes)
    /\ UNCHANGED <<adapter, http, normalizer, harness>>

Tier6Upscale ==
    /\ scan.pc = "tier6_upscale"
    /\ \E barcodes \in DecoderOutputs : scan' = tier6_upscale_step(scan, barcodes)
    /\ UNCHANGED <<adapter, http, normalizer, harness>>

Tier6Deskew ==
    /\ scan.pc = "tier6_deskew"
    /\ \E skew \in SkewEstimates :
           IF skew = "skewed"
               THEN \E barcodes \in DecoderOutputs :
                        scan' = tier6_deskew_step(scan, skew, barcodes)
               ELSE scan' = tier6_deskew_step(scan, skew, <<>>)
    /\ UNCHANGED <<adapter, http, normalizer, harness>>

Next ==
    \/ StartScan
    \/ Tier1
    \/ Tier2
    \/ Tier3
    \/ Tier4Crop
    \/ Tier4Enhanced
    \/ Gate
    \/ Tier5
    \/ Tier6Upscale
    \/ Tier6Deskew

Spec == Init /\ [][Next]_vars

\* every call scan_barcode makes returns (the decoder returns normally, the
\* OpenCV calls are finite), so a run that can take a step takes it
SpecLive == Spec /\ WF_vars(Next)

(***************************************************************************)
(* The decode adapter alone: try_decode on every answer of the decoder.    *)
(***************************************************************************)
\* what one call of the external decoder can return, over every type
AdapterInputs == UNION {[1..n -> Symbols] : n \in 0..MaxSymbols}

InitDecode ==
    /\ scan = IdleScan
    /\ http = IdleHttp
    /\ normalizer = IdleNormalizer
    /\ harness = IdleHarness
    /\ \E barcodes \in AdapterInputs :
           adapter = [pc |-> "called", barcodes |-> barcodes,
                      result |-> EmptyResult]

TryDecode ==
    /\ adapter.pc = "called"
    /\ adapter' = [adapter EXCEPT !.pc = "returned",
                                  !.result = try_decode(adapter.barcodes)]
    /\ UNCHANGED <<scan, http, normalizer, harness>>

NextDecode == TryDecode

SpecDecode == InitDecode /\ [][NextDecode]_vars

(***************************************************************************)
(* The service: one POST /scan request.                                    *)
(***************************************************************************)
\* sizes of the photographs, in pixels
ImageSizes == {60, 200}

\* uploads: bytes that are no image, and photographs
Uploads ==
    {[valid |-> FALSE, w |-> 0, h |-> 0]}
    \cup [valid : {TRUE}, w : ImageSizes, h : ImageSizes]

\* bounding boxes the detector reports (they lie within the smallest image)
DetectedBoxes ==
    [outcome : {"found"}, x : {0, 30}, y : {0, 30}, w : {10, 30}, h : {10, 30}]

\* what cv2.barcode.BarcodeDetector does on an image
Detections ==
    {[outcome |-> o, x |-> 0, y |-> 0, w |-> 0, h |-> 0] : o \in {"none", "raises"}}
    \cup DetectedBoxes

\* the calls of try_decode an oracle may answer: the first, one of tier 3,
\* one after tier 3
AnsweredCalls == {1, 9, 22}

Oracles ==
    [at : AnsweredCalls, barcodes : DecoderOutputs, skew : {"no_lines", "skewed"}]

Requests ==
    [contents : Uploads, detection : Detections,
     metrics : {UniformGray, SharpImage}, oracle : Oracles]

InitHttp ==
    /\ scan = IdleScan
    /\ adapter = IdleAdapter
    /\ normalizer = IdleNormalizer
    /\ harness = IdleHarness
    /\ \E request \in Requests :
           http = [pc |-> "received", request |-> request,
                   response |-> HttpError(0, "", 0)]

ScanUpc ==
    /\ http.pc = "received"
    /\ http' = [http EXCEPT !.pc = "responded",
                            !.response = scan_upc(http.request)]
    /\ UNCHANGED <<scan, adapter, normalizer, harness>>

NextHttp == ScanUpc

SpecHttp == InitHttp /\ [][NextHttp]_vars

(***************************************************************************)
(* The image normalizer alone: one call of preprocess_image.               *)
(***************************************************************************)
InitNormalizer ==
    /\ scan = IdleScan
    /\ adapter = IdleAdapter
    /\ http = IdleHttp
    /\ harness = IdleHarness
    /\ \E contents \in Uploads, detection \in Detections :
           normalizer = [pc |-> "called", contents |-> contents,
                         detection |-> detection, outcome |-> Returned(<<>>)]

PreprocessImage ==
    /\ normalizer.pc = "called"
    /\ normalizer' =
           [normalizer EXCEPT
               !.pc = "returned",
               !.outcome = preprocess_image(normalizer.contents,
                                            normalizer.detection)]
    /\ UNCHANGED <<scan, adapter, http, harness>>

NextNormalizer == PreprocessImage

SpecNormalizer == InitNormalizer /\ [][NextNormalizer]_vars

(***************************************************************************)
(* Whole calls of scan_barcode on images that differ only in their pixel   *)
(* statistics: the decoder answers each of their candidates alike.         *)
(***************************************************************************)
\* the calls of try_decode an oracle of the harness may answer: the first,
\* tier 1 at 180 degrees, the first after tier 3, one after the gate
HarnessCalls == {1, 3, 21, 30}

HarnessOracles ==
    [at : HarnessCalls, barcodes : DecoderOutputs, skew : {"no_lines", "skewed"}]

InitHarness ==
    /\ scan = IdleScan
    /\ adapter = IdleAdapter
    /\ http = IdleHttp
    /\ normalizer = IdleNormalizer
    /\ \E cropped_present \in BOOLEAN, oracle \in HarnessOracles :
           harness = [cropped_present |-> cropped_present, oracle |-> oracle,
                      runs |-> [m \in ImageMetrics |-> IdleScan]]

\* scan_barcode(original, enhanced, cropped) on the image of statistics m,
\* from its call to its return
ScanImage ==
    /\ \E m \in ImageMetrics :
           /\ harness.runs[m].pc = "idle"
           /\ harness' =
                  [harness EXCEPT
                      !.runs[m] = run_scan(scan_begin(harness.cropped_present, m),
                                           harness.oracle)]
    /\ UNCHANGED <<scan, adapter, http, normalizer>>

NextHarness == ScanImage

SpecHarness == InitHarness /\ [][NextHarness]_vars

(***************************************************************************)
(* Properties of the tiered scan.                                          *)
(***************************************************************************)
\* a field of a result holds a value
IsSet(v) == v # None /\ v # ""

HasBoth(r) == IsSet(r.main) /\ IsSet(r.extension)

Done == scan.pc = "done"

\* a set field of the accumulator keeps its value over a step
FieldsKept ==
    /\ IsSet(scan.best_result.main)
           => scan'.best_result.main = scan.best_result.main
    /\ IsSet(scan.best_result.extension)
           => scan'.best_result.extension = scan.best_result.extension

\* merge_results keeps every set field of its first argument
MergeKeepsFirst ==
    \A a \in ScanResults, b \in ScanResults :
        /\ IsSet(a.main) => merge_results(a, b).main = a.main
        /\ IsSet(a.extension) => merge_results(a, b).extension = a.extension

\* C1: merge monotonicity. Once the accumulator of scan_barcode holds a
\* non-empty main (extension), every later state of the accumulator, the
\* returned result included, holds that same value; merge_results(a, b) never
\* clears or replaces a non-empty field of a.
C1_MergeMonotonicity == [][FieldsKept /\ MergeKeepsFirst]_vars

\* the last attempt decoded the missing extension and another main than the
\* one found before, and the scan returned the main found first
C1_Witness ==
    /\ Done
    /\ HasBoth(scan.best_result)
    /\ IsSet(scan.result.main)
    /\ scan.result.main # scan.best_result.main
    /\ scan.result.extension = scan.best_result.extension

\* C2: early termination. When the first decode attempt (tier 1, original,
\* rotation 0) returns a main and an extension, scan_barcode returns that
\* result after exactly one decode call; and whenever the accumulator holds
\* both fields the scan has returned, so that no further attempt is made.
C2_EarlyTermination ==
    /\ (scan.calls = 1 /\ HasBoth(scan.result))
           => /\ Done
              /\ scan.best_result = scan.result
              /\ scan.trace = <<Label(1, "original", 0, 0)>>
    /\ HasBoth(scan.best_result) => Done

C2_Witness == Done /\ scan.calls = 1 /\ HasBoth(scan.best_result)

\* C3: every decode attempt's result is merged into the accumulator: when
\* some attempt of the run returned an extension (a main), the result that
\* scan_barcode returns has its extension (main) set.
C3_EveryAttemptMerged ==
    Done => /\ scan.seen_main => IsSet(scan.best_result.main)
            /\ scan.seen_extension => IsSet(scan.best_result.extension)

\* the gate has just been checked: the scan stopped there or is about to
\* start tier 5
AtGate == scan.trace # <<>> /\ scan.trace[Len(scan.trace)] = GateLabel

\* C4: gate check. scan_barcode stops at the gate exactly when the verdict
\* is not-scannable and neither a main nor an extension has been found, and
\* the accumulator it returns from the gate is empty.
C4_GateCheck ==
    AtGate =>
        /\ Done <=> (~scan.quality.scannable /\ scan.best_result = EmptyResult)
        /\ Done => scan.best_result = EmptyResult

\* C5: gate short-circuit. For an input whose verdict is not-scannable and
\* for which no decode attempt has returned anything, scan_barcode makes no
\* small-angle attempt and no deep-processing attempt, and what it returns is
\* the empty result, returned from the gate.
C5_GateShortCircuit ==
    (scan.pc # "idle" /\ ~scan.quality.scannable
        /\ ~scan.seen_main /\ ~scan.seen_extension)
    => /\ scan.pc \notin {"tier5", "tier6_upscale", "tier6_deskew"}
       /\ \A i \in 1..Len(scan.trace) : scan.trace[i].tier <= 4
       /\ Done => (scan.exit = "gate" /\ scan.best_result = EmptyResult)

\* a uniform gray image with a crop went through the 28 attempts of tiers
\* 1 to 4 and was returned empty from the gate
C5_Witness ==
    /\ Done
    /\ scan.quality.contrast = 0
    /\ ~scan.quality.scannable
    /\ scan.exit = "gate"
    /\ scan.calls = 28
    /\ scan.best_result = EmptyResult

\* the four rotations of one image
FourRotations(tier, img, param) ==
    <<Label(tier, img, param, 0), Label(tier, img, param, 90),
      Label(tier, img, param, 180), Label(tier, img, param, 270)>>

\* the order of the tiers, deep processing counted once per rotation
TierOrder(cropped_present) ==
    FourRotations(1, "original", 0) \o FourRotations(2, "enhanced", 0)
    \o FourRotations(3, "thresh", 140) \o FourRotations(3, "thresh", 160)
    \o FourRotations(3, "thresh", 180)
    \o (IF cropped_present
            THEN FourRotations(4, "crop", 0) \o FourRotations(4, "crop_enhanced", 0)
            ELSE <<>>)
    \o <<GateLabel>>
    \o <<Label(5, "small_angle", 0, -5), Label(5, "small_angle", 0, -3),
         Label(5, "small_angle", 0, 3), Label(5, "small_angle", 0, 5)>>
    \o <<Label(6, "deep", 0, 0), Label(6, "deep", 0, 90)>>

\* the trace with the attempts of one deep-processing rotation counted as one
RECURSIVE TierVisits(_)
TierVisits(t) ==
    IF t = <<>> THEN <<>>
    ELSE LET rest == TierVisits(Tail(t))
             head == IF Head(t).tier = 6
                         THEN Label(6, "deep", 0, Head(t).angle)
                         ELSE Head(t)
         IN IF head.tier = 6 /\ rest # <<>> /\ Head(rest) = head
                THEN rest
                ELSE <<head>> \o rest

IsPrefix(p, q) == Len(p) <= Len(q) /\ p = SubSeq(q, 1, Len(p))

\* C6: tier ordering. The decode attempts of a run, with the gate check
\* between tier 4 and tier 5, are a prefix of the tier order: original,
\* enhanced, thresholds 140, 160, 180 (four rotations each), the crop and the
\* enhanced crop when there is a crop, the gate, the small angles, deep
\* processing at 0 then 90.
C6_TierOrdering == IsPrefix(TierVisits(scan.trace), TierOrder(scan.has_crop))

\* a run with a crop that went through every tier
C6_Witness ==
    /\ Done
    /\ scan.has_crop
    /\ scan.exit = "end"
    /\ TierVisits(scan.trace) = TierOrder(TRUE)

\* the attempts of deep processing at rotation a, in a trace
DeepAttempts(t, a) == SelectSeq(t, LAMBDA l : l.tier = 6 /\ l.angle = a)

\* the cascade of upscale_and_clean at rotation a
CascadeOrder(a) ==
    <<Label(6, "deep_thresh", 140, a), Label(6, "deep_thresh", 160, a),
      Label(6, "deep_thresh", 180, a), Label(6, "deep_thresh", 120, a),
      Label(6, "deep_otsu", 0, a), Label(6, "deep_otsu_inverted", 0, a),
      Label(6, "deep_h_blur", 0, a)>>

\* attempts d of one deep rotation: a prefix of the cascade, then at most one
\* deskew attempt
CascadeThenDeskew(d, a) ==
    LET deskewed == d # <<>> /\ d[Len(d)] = Label(6, "deep_deskew", 0, a)
        cascade == IF deskewed THEN SubSeq(d, 1, Len(d) - 1) ELSE d
    IN /\ IsPrefix(cascade, CascadeOrder(a))
       /\ deskewed => cascade # <<>>

\* the accumulator after merging a result, field by field
Accumulated(best, r) ==
    [main |-> IF IsSet(best.main) THEN best.main ELSE r.main,
     extension |-> IF IsSet(best.extension) THEN best.extension ELSE r.extension]

\* a step of the cascade: it goes on to the next attempt, its result dropped,
\* exactly when the attempt gave no main and was not the seventh; otherwise
\* upscale_and_clean returns the attempt's result, which is merged
CascadeStep ==
    scan.pc = "tier6_upscale" =>
        /\ scan'.calls = scan.calls + 1
        /\ IF ~IsSet(scan'.result.main) /\ scan.step_i < 7
               THEN /\ scan'.pc = "tier6_upscale"
                    /\ scan'.step_i = scan.step_i + 1
                    /\ scan'.best_result = scan.best_result
               ELSE /\ scan'.pc \in {"tier6_deskew", "done"}
                    /\ scan'.best_result
                           = Accumulated(scan.best_result, scan'.result)

\* a step of the deskew: at most one decode attempt, and none when no skew
\* was estimated
DeskewStep ==
    scan.pc = "tier6_deskew" =>
        /\ scan'.calls \in {scan.calls, scan.calls + 1}
        /\ ~scan'.deskew_estimate => scan'.calls = scan.calls

\* C17: deep-processing cascade order. At each deep rotation the attempts
\* are thresholds 140, 160, 180, 120, then Otsu, then inverted Otsu, then the
\* horizontal blur, each tried only when no earlier one gave a main; the
\* cascade returns the first attempt that yields a main (at most 7 attempts);
\* the deskew then makes at most one attempt, none without a skew estimate.
C17_CascadeOrder ==
    /\ [](\A a \in {0, 90} : CascadeThenDeskew(DeepAttempts(scan.trace, a), a))
    /\ [][CascadeStep /\ DeskewStep]_vars

\* the cascade at rotation 90 stopped at its Otsu attempt, which gave a main,
\* after a deskew attempt at rotation 0
C17_Witness ==
    /\ scan.pc = "tier6_deskew"
    /\ scan.angle_i = 2
    /\ IsSet(scan.result.main)
    /\ DeepAttempts(scan.trace, 90) = SubSeq(CascadeOrder(90), 1, 5)
    /\ Len(DeepAttempts(scan.trace, 0)) = 8

\* a run that has a main returns only with both fields or from its last line
ReturnsOnlyWhenExhausted ==
    (Done /\ IsSet(scan.best_result.main))
        => (HasBoth(scan.best_result) \/ scan.exit = "end")

\* the gate lets a run with a main go on to the small-angle tier, whatever
\* the verdict
GatePassesMain ==
    (scan.pc = "gate" /\ IsSet(scan.best_result.main)) => scan'.pc = "tier5"

\* the first main any attempt finds becomes the accumulator's main, and the
\* accumulator's main never changes afterwards
FirstMainReported ==
    /\ (~scan.seen_main /\ scan'.seen_main)
           => scan'.best_result.main = scan'.result.main
    /\ IsSet(scan.best_result.main)
           => scan'.best_result.main = scan.best_result.main
    /\ scan.seen_main => IsSet(scan.best_result.main)

\* C18: once a main has been found without an extension, scan_barcode keeps
\* trying: it returns before its last line only when an extension is found
\* too, the quality gate does not stop it even when the verdict is
\* not-scannable, and the main it reports is the one found first.
C18_MainKeepsSearching ==
    /\ []ReturnsOnlyWhenExhausted
    /\ [][GatePassesMain /\ FirstMainReported]_vars

\* a not-scannable image whose main was found before the gate ran through
\* every tier to the last line, a later attempt having found another main
C18_Witness ==
    /\ Done
    /\ ~scan.quality.scannable
    /\ scan.exit = "end"
    /\ IsSet(scan.best_result.main)
    /\ ~IsSet(scan.best_result.extension)
    /\ IsSet(scan.result.main)
    /\ scan.result.main # scan.best_result.main
    /\ \E i \in 1..Len(scan.trace) : scan.trace[i] = GateLabel

\* the terminal states of a run
COMPLETE == Done /\ HasBoth(scan.best_result)
EMPTY == Done /\ scan.best_result = EmptyResult
PARTIAL == Done /\ ~HasBoth(scan.best_result) /\ scan.best_result # EmptyResult

\* 4 + 4 + 12 + [8] + 4 + 2 x (7 + 1)
AttemptBudget == IF scan.has_crop THEN 48 ELSE 40

\* no run makes more decode attempts than its budget, and every attempt is
\* counted
WithinBudget ==
    /\ scan.calls <= AttemptBudget
    /\ scan.calls = Len(SelectSeq(scan.trace, LAMBDA l : l # GateLabel))

\* a return from inside a tier is COMPLETE, a return from the gate has no
\* main, the last line returns what is not COMPLETE
TerminalStates ==
    Done =>
        /\ COMPLETE \/ PARTIAL \/ EMPTY
        /\ scan.exit \in {"tier1", "tier2", "tier3", "tier4", "tier5", "tier6"}
               <=> COMPLETE
        /\ scan.exit = "gate" => ~IsSet(scan.best_result.main)
        /\ scan.exit \in {"gate", "end"} <=> (PARTIAL \/ EMPTY)

\* C19: bounded search. Every run of scan_barcode terminates, in one of the
\* terminal states COMPLETE, PARTIAL or EMPTY, after at most 48 decode
\* attempts when a crop exists and at most 40 when it does not, whatever the
\* decoder returns.
C19_BoundedSearch ==
    /\ [](WithinBudget /\ TerminalStates)
    /\ (scan.pc # "idle") ~> Done

\* a run with a crop that went through all 48 attempts and ended PARTIAL
C19_Witness ==
    /\ PARTIAL
    /\ scan.has_crop
    /\ scan.calls = 48
    /\ scan.exit = "end"

(***************************************************************************)
(* Properties of the decode adapter.                                       *)
(***************************************************************************)
\* the places of the symbols of the given types in a decoder answer
Places(barcodes, types) == {i \in 1..Len(barcodes) : barcodes[i].type \in types}

\* the payload of the first symbol of the given types, None when there is none
FirstOf(barcodes, types) ==
    LET at == Places(barcodes, types)
    IN IF at = {} THEN None
       ELSE barcodes[CHOOSE i \in at : \A j \in at : i <= j].data

\* C7: decode adapter classification. try_decode sets main to the payload of
\* the first symbol of type UPC-A, UPC-E or EAN-13 the decoder returned (the
\* first one wins) and extension from an EAN-5 symbol; symbols of any other
\* type leave the result as it is.
C7_AdapterClassification ==
    adapter.pc = "returned" =>
        /\ adapter.result.main
               = FirstOf(adapter.barcodes, {"UPCA", "UPCE", "EAN13"})
        /\ IF Places(adapter.barcodes, {"EAN5"}) = {}
               THEN adapter.result.extension = None
               ELSE \E i \in Places(adapter.barcodes, {"EAN5"}) :
                        adapter.result.extension = adapter.barcodes[i].data

(***************************************************************************)
(* Properties of the service.                                              *)
(***************************************************************************)
Responded == http.pc = "responded"

\* the scan of a request: scan_barcode on the images of the upload, the crop
\* being there when a region was detected
ScanOf(request) ==
    scan_barcode(request.detection.outcome = "found", request.metrics,
                 request.oracle)

\* C8: partial results are successes. For a request whose bytes are a valid
\* image and whose scan finds a main symbol, with or without an extension,
\* the response is a success that carries the main value and the extension.
C8_PartialResultsSucceed ==
    (Responded /\ http.request.contents.valid
        /\ IsSet(ScanOf(http.request).main))
    => /\ http.response.status = 200
       /\ http.response.upc = ScanOf(http.request).main
       /\ http.response.extension = ScanOf(http.request).extension

\* C9: DecodeError mapping. When the bytes are no image, no scan is run and
\* the response has a 4xx status.
C9_DecodeErrorIsClientError ==
    (Responded /\ ~http.request.contents.valid)
    => /\ http.response.scans = 0
       /\ http.response.status \in 400..499

\* C10: NotFound mapping. The response is "No barcode found" if and only if
\* the scan of the request ended with neither a main nor an extension.
C10_NotFoundIffEmpty ==
    Responded =>
        (http.response.detail = "No barcode found"
            <=> (http.request.contents.valid
                    /\ ScanOf(http.request) = EmptyResult))

(***************************************************************************)
(* Properties of the image normalizer.                                     *)
(***************************************************************************)
\* preprocess_image returned (it did not raise)
NormalizerReturned == normalizer.pc = "returned" /\ ~normalizer.outcome.raised

\* an image shows the whole photograph
ShowsAll(img, contents) ==
    img.x = 0 /\ img.y = 0 /\ img.w = contents.w /\ img.h = contents.h

\* C11: crop rejection. When region localization succeeds and the padded
\* crop covers more than 60% of the area of the full image, preprocess_image
\* returns no cropped region: every image it returns either shows the whole
\* photograph or covers at most 60% of its area.
C11_CropRejection ==
    (NormalizerReturned /\ normalizer.detection.outcome = "found")
    => \A i \in DOMAIN normalizer.outcome.value :
           LET img == normalizer.outcome.value[i]
           IN \/ ShowsAll(img, normalizer.contents)
              \/ img.w * img.h * 100
                     <= 60 * normalizer.contents.w * normalizer.contents.h

C16_NormalizerTriple ==
    (normalizer.pc = "returned" /\ normalizer.contents.valid)
    => /\ ~normalizer.outcome.raised
       /\ Len(normalizer.outcome.value) = 3
       /\ ShowsAll(normalizer.outcome.value[1], normalizer.contents)
       /\ normalizer.outcome.value[1].kind = "bgr"
       /\ ShowsAll(normalizer.outcome.value[2], normalizer.contents)
       /\ normalizer.outcome.value[2].kind = "enhanced"
       /\ normalizer.detection.outcome # "found"
              => normalizer.outcome.value[3] = NoImage

(***************************************************************************)
(* Properties of whole scans.                                              *)
(***************************************************************************)
\* the run of the harness on the image of statistics m has returned
Ran(m) == harness.runs[m].pc = "done"

\* a decoder answer with a main symbol and no extension
MainOnly(barcodes) ==
    /\ Places(barcodes, {"UPCA", "UPCE", "EAN13"}) # {}
    /\ Places(barcodes, {"EAN5"}) = {}

\* C12: rotation coverage. When only the third decode attempt of a run, the
\* original at rotation 180, returns a main symbol (rotation 0 returns
\* nothing) and no attempt returns an extension, scan_barcode returns that
\* main with no extension, whatever the quality verdict.
C12_RotationCoverage ==
    \A m \in ImageMetrics :
        (Ran(m) /\ harness.oracle.at = 3 /\ MainOnly(harness.oracle.barcodes))
        => /\ harness.runs[m].trace[1] = Label(1, "original", 0, 0)
           /\ harness.runs[m].trace[3] = Label(1, "original", 0, 180)
           /\ harness.runs[m].best_result
                  = [main |-> try_decode(harness.oracle.barcodes).main,
                     extension |-> None]

\* a uniform gray image readable only at rotation 180: the scan went through
\* every tier and returned the main
C12_Witness ==
    /\ Ran(UniformGray)
    /\ harness.oracle.at = 3
    /\ MainOnly(harness.oracle.barcodes)
    /\ harness.runs[UniformGray].exit = "end"
    /\ IsSet(harness.runs[UniformGray].best_result.main)
    /\ harness.runs[UniformGray].best_result.extension = None

\* the decode attempts of tiers 1 to 4 of a trace
CheapAttempts(t) == SelectSeq(t, LAMBDA l : l.tier \in 1..4)

\* C15: the quality verdict never vetoes the cheap tiers. Two runs on the
\* same decode outcomes and the same crop, whatever their verdicts, make the
\* same attempts in tiers 1 to 4; and the runs differ at all only when one of
\* them stopped at the gate with nothing found.
C15_VerdictGatesOnlyWhenEmpty ==
    \A m1 \in ImageMetrics, m2 \in ImageMetrics :
        (Ran(m1) /\ Ran(m2))
        => LET r1 == harness.runs[m1]
               r2 == harness.runs[m2]
           IN /\ CheapAttempts(r1.trace) = CheapAttempts(r2.trace)
              /\ (r1.trace # r2.trace \/ r1.best_result # r2.best_result)
                     => \E r \in {r1, r2} :
                            r.exit = "gate" /\ r.best_result = EmptyResult

====
